---- MODULE Spec2Model ----
(***************************************************************************)
(* Network interface and firewall policy engine of the SIEM appliance      *)
(* (src/network.rs): the nftables intermediate representation and its      *)
(* renderer, NetworkManager's firewall batch and interface configuration   *)
(* store, and the rtnetlink link/address operations against a kernel.      *)
(*                                                                         *)
(* Text that the program only copies or compares is a TLA+ string.  Text   *)
(* that the program parses, splits or re-cases (addresses, rule actions)   *)
(* is a sequence of one-character strings.  A rendered nft command is the  *)
(* sequence of the pieces the renderer writes with one space between them. *)
(***************************************************************************)
EXTENDS Integers, Sequences, FiniteSets, TLC

VARIABLES
    links,            \* kernel: the links, in enumeration order
    kaddrs,           \* kernel: the addresses, in enumeration order
    interfaces,       \* NetworkManager.interfaces (Vec<InterfaceConfig>)
    nftables_handle,  \* NetworkManager.nftables_handle (Batch.commands)
    ruleset,          \* host: the live nftables ruleset, the rules in listing order
    calls,            \* the add_firewall_rule calls that run side by side, per caller
    scripts,          \* ScriptsManager.scripts (HashMap<Uuid, Script>)
    execution_results,\* ScriptsManager.execution_results (Vec<ScriptExecutionResult>)
    handed,           \* history: the contents given to the interpreter, in order
    approved_content, \* history: per script, its content when it was last approved
    printers,         \* PrinterManager.printers (HashMap<Uuid, Printer>)
    last              \* the most recent call: its arguments and result, the batch it
                      \* found (firewall calls), the kernel requests it sent (setup)

scriptVars == <<scripts, execution_results, handed, approved_content>>
netVars == <<links, kaddrs, interfaces, nftables_handle, ruleset, calls>>
vars == <<links, kaddrs, interfaces, nftables_handle, ruleset, calls,
          scripts, execution_results, handed, approved_content, printers, last>>

(***************************************************************************)
(* Option<T>, Result                                                       *)
(***************************************************************************)
None == [some |-> FALSE]
Some(x) == [some |-> TRUE, v |-> x]

Ok == [ok |-> TRUE]
Err(msg) == [ok |-> FALSE, err |-> msg]

(***************************************************************************)
(* Sequence helpers                                                        *)
(***************************************************************************)
Range(s) == {s[i] : i \in 1..Len(s)}

RECURSIVE Flatten(_)
Flatten(ss) == IF ss = <<>> THEN <<>> ELSE Head(ss) \o Flatten(Tail(ss))

RECURSIVE Perms(_)
\* every ordering of the finite set S
Perms(S) ==
    IF S = {} THEN {<<>>}
    ELSE UNION {{<<x>> \o p : p \in Perms(S \ {x})} : x \in S}

(***************************************************************************)
(* Text as characters: str::split, str::to_lowercase, u8 and IPv4 parsing, *)
(* Display of integers and addresses                                       *)
(***************************************************************************)
DigitChars == <<"0", "1", "2", "3", "4", "5", "6", "7", "8", "9">>
UpperChars == <<"A", "B", "C", "D", "E", "F", "G", "H", "I", "J", "K", "L", "M",
                "N", "O", "P", "Q", "R", "S", "T", "U", "V", "W", "X", "Y", "Z">>
LowerChars == <<"a", "b", "c", "d", "e", "f", "g", "h", "i", "j", "k", "l", "m",
                "n", "o", "p", "q", "r", "s", "t", "u", "v", "w", "x", "y", "z">>

IsDigit(c) == c \in Range(DigitChars)
DigitVal(c) == (CHOOSE i \in 1..Len(DigitChars) : DigitChars[i] = c) - 1

LowerChar(c) ==
    IF c \in Range(UpperChars)
    THEN LowerChars[CHOOSE i \in 1..Len(UpperChars) : UpperChars[i] = c]
    ELSE c

\* str::to_lowercase on ASCII text
ToLowercase(s) == [i \in 1..Len(s) |-> LowerChar(s[i])]

RECURSIVE SplitFrom(_, _, _)
\* the parts of s[i..] cut at every sep, cur being the part read so far
SplitFrom(s, sep, cur) ==
    IF s = <<>> THEN <<cur>>
    ELSE IF Head(s) = sep THEN <<cur>> \o SplitFrom(Tail(s), sep, <<>>)
    ELSE SplitFrom(Tail(s), sep, Append(cur, Head(s)))

\* str::split(sep).collect(): one part more than there are separators
Split(s, sep) == SplitFrom(s, sep, <<>>)

RECURSIVE DigitsValue(_, _)
DigitsValue(s, acc) ==
    IF s = <<>> THEN acc ELSE DigitsValue(Tail(s), acc * 10 + DigitVal(Head(s)))

U8Max == 255

\* <u8 as FromStr>::from_str: an optional "+", then one or more digits, no overflow
ParseU8(s) ==
    LET body == IF s # <<>> /\ Head(s) = "+" THEN Tail(s) ELSE s
    IN  IF body = <<>> \/ \E i \in 1..Len(body) : ~IsDigit(body[i])
        THEN None
        ELSE LET n == DigitsValue(body, 0)
             IN  IF n > U8Max THEN None ELSE Some(n)

\* one octet of a dotted quad: 1 to 3 digits, no leading zero, at most 255
ParseOctet(s) ==
    IF \/ s = <<>>
       \/ Len(s) > 3
       \/ \E i \in 1..Len(s) : ~IsDigit(s[i])
       \/ (Len(s) > 1 /\ Head(s) = "0")
       \/ DigitsValue(s, 0) > U8Max
    THEN None
    ELSE Some(DigitsValue(s, 0))

\* <IpAddr as FromStr>::from_str on text without ":" (the IPv4 grammar)
ParseIpAddr(s) ==
    LET parts == Split(s, ".")
    IN  IF Len(parts) # 4 \/ \E i \in 1..4 : ~ParseOctet(parts[i]).some
        THEN None
        ELSE Some([i \in 1..4 |-> ParseOctet(parts[i]).v])

RECURSIVE FormatNum(_)
\* Display of an unsigned integer
FormatNum(n) ==
    IF n < 10 THEN <<DigitChars[n + 1]>>
    ELSE Append(FormatNum(n \div 10), DigitChars[(n % 10) + 1])

\* Display of an IPv4 address
FormatIp(ip) ==
    FormatNum(ip[1]) \o <<".">> \o FormatNum(ip[2]) \o <<".">>
        \o FormatNum(ip[3]) \o <<".">> \o FormatNum(ip[4])

(***************************************************************************)
(* nftables intermediate representation (mod nftables)                     *)
(***************************************************************************)
\* expr::Expr and expr::Data
Match(op, e) == [t |-> "Match", op |-> op, expr |-> e]
Cmp(op, data) == [t |-> "Cmp", op |-> op, data |-> data]
Accept == [t |-> "Accept"]
Drop == [t |-> "Drop"]
Counter == [t |-> "Counter"]
SetData(items) == [d |-> "Set", v |-> items]
StrVal(s) == [d |-> "StrVal", v |-> s]

\* Stmt and objects::{AddTable, AddChain, Add, Flush}
AddTable(family, name) == [kind |-> "AddTable", family |-> family, name |-> name]
AddChain(family, table, name, constraint) ==
    [kind |-> "AddChain", family |-> family, table |-> table, name |-> name,
     handle |-> None, constraint |-> constraint]
Add(family, table, chain, expr) ==
    [kind |-> "Add", family |-> family, table |-> table, chain |-> chain,
     handle |-> None, index |-> None, expr |-> expr]
FlushTable(family, name) == [kind |-> "FlushTable", family |-> family, name |-> name]

\* Display for TableFamily
FamilyText(family) ==
    CASE family = "Ip" -> "ip"
      [] family = "Ip6" -> "ip6"
      [] family = "Inet" -> "inet"
      [] family = "Arp" -> "arp"
      [] family = "Bridge" -> "bridge"
      [] family = "Netdev" -> "netdev"

\* the items of a Data::Set as written: a ", " after every item but the last
SetItems(items) ==
    IF items = <<>> THEN <<"">>
    ELSE [i \in 1..Len(items) |-> IF i < Len(items) THEN items[i] \o "," ELSE items[i]]

\* Display for Cmp
RenderCmp(c) ==
    IF c.data.d = "Set" THEN <<c.op, "{">> \o SetItems(c.data.v) \o <<"}">>
    ELSE <<c.op, c.data.v>>

RECURSIVE RenderExpr(_)
\* Display for Expr, Match, Accept, Drop and Counter
RenderExpr(e) ==
    CASE e.t = "Match" -> <<e.op>> \o RenderExpr(e.expr)
      [] e.t = "Cmp" -> RenderCmp(e)
      [] e.t = "Accept" -> <<"accept">>
      [] e.t = "Drop" -> <<"drop">>
      [] e.t = "Counter" -> <<"counter">>

\* Display for Stmt: the expressions of a rule follow "add rule f t c " one space apart
RenderStmt(s) ==
    CASE s.kind = "AddTable" -> <<"add", "table", FamilyText(s.family), s.name>>
      [] s.kind = "AddChain" ->
            IF s.constraint.some
            THEN <<"add", "chain", FamilyText(s.family), s.table, s.name, s.constraint.v>>
            ELSE <<"add", "chain", FamilyText(s.family), s.table, s.name>>
      [] s.kind = "Add" ->
            <<"add", "rule", FamilyText(s.family), s.table, s.chain>>
                \o (IF s.expr = <<>> THEN <<"">>
                    ELSE Flatten([i \in 1..Len(s.expr) |-> RenderExpr(s.expr[i])]))
      [] s.kind = "FlushTable" -> <<"flush", "table", FamilyText(s.family), s.name>>

\* Batch::new, Batch::add, Batch::clone
BatchNew == <<>>

\* BatchAdd as it would be if the command were put in front
BatchAddInFront(batch, stmt, comment) ==
    << IF comment.some THEN RenderStmt(stmt) \o <<"#", comment.v>>
       ELSE RenderStmt(stmt) >> \o batch

BatchAdd(batch, stmt, comment) ==
    Append(batch, IF comment.some THEN RenderStmt(stmt) \o <<"#", comment.v>>
                  ELSE RenderStmt(stmt))

BatchClone(batch) == batch

RECURSIVE BatchAddAll(_, _)
\* successive batch.add(stmt, None) calls
BatchAddAll(batch, stmts) ==
    IF stmts = <<>> THEN batch
    ELSE BatchAddAll(BatchAdd(batch, Head(stmts), None), Tail(stmts))

(***************************************************************************)
(* NetworkManager: the firewall path                                       *)
(***************************************************************************)
InterfaceConfig(name, dhcp, address, zone) ==
    [name |-> name, dhcp |-> dhcp, address |-> address, nftables_zone |-> zone]

\* Chains as it would be with the forward chain accepting by default
ChainsForwardAccept ==
    << <<"input", "type filter hook input priority 0; policy drop;">>,
       <<"forward", "type filter hook forward priority 0; policy accept;">>,
       <<"output", "type filter hook output priority 0; policy accept;">> >>

\* the chains of initialize_nftables with their hook and policy clauses
Chains ==
    << <<"input", "type filter hook input priority 0; policy drop;">>,
       <<"forward", "type filter hook forward priority 0; policy drop;">>,
       <<"output", "type filter hook output priority 0; policy accept;">> >>

\* meta iifname <iface>
IifnameMatch(iface) == Match("meta", Cmp("iifname", StrVal(iface)))

\* BaseStmts as it would be with the loopback rule added before the
\* established/related rule
BaseStmtsLoopbackFirst ==
    << FlushTable("Inet", "filter"), AddTable("Inet", "filter") >>
    \o [i \in 1..Len(Chains) |->
            AddChain("Inet", "filter", Chains[i][1], Some(Chains[i][2]))]
    \o << Add("Inet", "filter", "input", << IifnameMatch("lo"), Accept >>),
          Add("Inet", "filter", "input",
              << Match("ct", Cmp("state", SetData(<<"established", "related">>))),
                 Accept >>) >>

\* flush, table, chains, then the established/related and loopback rules
BaseStmts ==
    << FlushTable("Inet", "filter"), AddTable("Inet", "filter") >>
    \o [i \in 1..Len(Chains) |->
            AddChain("Inet", "filter", Chains[i][1], Some(Chains[i][2]))]
    \o << Add("Inet", "filter", "input",
              << Match("ct", Cmp("state", SetData(<<"established", "related">>))),
                 Accept >>),
          Add("Inet", "filter", "input", << IifnameMatch("lo"), Accept >>) >>

\* the keys of the zone_interfaces map
ZoneKeys(ifaces) ==
    {ifaces[i].nftables_zone.v : i \in {j \in 1..Len(ifaces) : ifaces[j].nftables_zone.some}}

\* ZoneInterfaces as it would be if the zone label of an entry were not compared
ZoneInterfacesAnyZone(ifaces, zone) ==
    LET Labelled(c) == c.nftables_zone.some
        members == SelectSeq(ifaces, Labelled)
    IN  [i \in 1..Len(members) |-> members[i].name]

\* zone_interfaces[zone]: the names declared with the zone, in configuration order
ZoneInterfaces(ifaces, zone) ==
    LET InZone(c) == c.nftables_zone = Some(zone)
        members == SelectSeq(ifaces, InZone)
    IN  [i \in 1..Len(members) |-> members[i].name]

\* ZoneRule as it would be with the "wan" arm holding the body of the "lan" arm
ZoneRuleWanOpen(zone, iface) ==
    CASE zone = "wan" \/ zone = "lan" ->
            Add("Inet", "filter", "input", << IifnameMatch(iface), Accept >>)
      [] OTHER ->
            Add("Inet", "filter", "input",
                << IifnameMatch(iface),
                   Match("tcp", Cmp("dport", SetData(<<"80", "443">>))), Accept >>)

\* ZoneRule as it would be without the "lan" arm
ZoneRuleNoLan(zone, iface) ==
    CASE zone = "wan" ->
            Add("Inet", "filter", "input",
                << IifnameMatch(iface), Match("tcp", Cmp("dport", StrVal("22"))), Accept >>)
      [] OTHER ->
            Add("Inet", "filter", "input",
                << IifnameMatch(iface),
                   Match("tcp", Cmp("dport", SetData(<<"80", "443">>))), Accept >>)

\* the rule of one interface under the template of its zone
ZoneRule(zone, iface) ==
    CASE zone = "wan" ->
            Add("Inet", "filter", "input",
                << IifnameMatch(iface), Match("tcp", Cmp("dport", StrVal("22"))), Accept >>)
      [] zone = "lan" ->
            Add("Inet", "filter", "input", << IifnameMatch(iface), Accept >>)
      [] OTHER ->
            Add("Inet", "filter", "input",
                << IifnameMatch(iface),
                   Match("tcp", Cmp("dport", SetData(<<"80", "443">>))), Accept >>)

\* ZoneStmts as it would be if the entries without a zone label were given the rule
\* of the third template
ZoneStmtsUnlabelledToo(ifaces, order) ==
    LET Unlabelled(c) == ~c.nftables_zone.some
        rest == SelectSeq(ifaces, Unlabelled)
    IN  Flatten([k \in 1..Len(order) |->
                    LET members == ZoneInterfaces(ifaces, order[k])
                    IN  [j \in 1..Len(members) |-> ZoneRule(order[k], members[j])]])
        \o [j \in 1..Len(rest) |-> ZoneRule("", rest[j].name)]

\* the zone rules, the map being walked in the order `order` of its keys
ZoneStmts(ifaces, order) ==
    Flatten([k \in 1..Len(order) |->
                LET members == ZoneInterfaces(ifaces, order[k])
                IN  [j \in 1..Len(members) |-> ZoneRule(order[k], members[j])]])

\* the batch initialize_nftables builds
BuildBatch(ifaces, order) ==
    BatchAddAll(BatchNew, BaseStmts \o ZoneStmts(ifaces, order))

\* load_config as it would be if the list given were added to the store
LoadConfigMerge(list) ==
    /\ interfaces' = interfaces \o list
    /\ last' = [op |-> "load_config", list |-> list, found |-> nftables_handle,
                result |-> Ok]
    /\ UNCHANGED <<nftables_handle, links, kaddrs, ruleset, calls, scriptVars, printers>>

\* load_config: the store is overwritten with the list given
LoadConfig(list) ==
    /\ interfaces' = list
    /\ last' = [op |-> "load_config", list |-> list, found |-> nftables_handle,
                result |-> Ok]
    /\ UNCHANGED <<nftables_handle, links, kaddrs, ruleset, calls, scriptVars, printers>>

\* initialize_nftables as it would be if it built on a clone of the stored batch
InitializeNftablesOnClone ==
    \E order \in Perms(ZoneKeys(interfaces)) :
        /\ nftables_handle' =
                BatchAddAll(BatchClone(nftables_handle),
                            BaseStmts \o ZoneStmts(interfaces, order))
        /\ last' = [op |-> "initialize_nftables", found |-> nftables_handle,
                    tool |-> <<>>, result |-> Ok]
        /\ UNCHANGED <<interfaces, links, kaddrs, ruleset, calls, scriptVars, printers>>

\* initialize_nftables: a HashMap is walked in an order the program does not choose;
\* the batch is stored and the rule tool is not run (tool: the runs the call made)
InitializeNftables ==
    \E order \in Perms(ZoneKeys(interfaces)) :
        /\ nftables_handle' = BatchClone(BuildBatch(interfaces, order))
        /\ last' = [op |-> "initialize_nftables", found |-> nftables_handle,
                    tool |-> <<>>, result |-> Ok]
        /\ UNCHANGED <<interfaces, links, kaddrs, ruleset, calls, scriptVars, printers>>

AcceptText == <<"a", "c", "c", "e", "p", "t">>
DropText == <<"d", "r", "o", "p">>

\* the match on action.to_lowercase(): the terminal expression, or None
ActionExpr(action) ==
    LET a == ToLowercase(action)
    IN  IF a = AcceptText THEN Some(Accept)
        ELSE IF a = DropText THEN Some(Drop)
        ELSE None

\* RuleExpressions as it would be with the counter pushed first
RuleExpressionsCounterFirst(protocol, port, source) ==
    << Counter >>
    \o (IF protocol # "" /\ protocol # "any"
        THEN << Match(protocol, Cmp("protocol", StrVal(protocol))) >> ELSE <<>>)
    \o (IF port.some
        THEN << Match(protocol, Cmp("dport", StrVal(ToString(port.v)))) >> ELSE <<>>)
    \o (IF source.some
        THEN << Match("ip", Cmp("saddr", StrVal(source.v))) >> ELSE <<>>)

\* the expressions pushed before the action
RuleExpressions(protocol, port, source) ==
    (IF protocol # "" /\ protocol # "any"
     THEN << Match(protocol, Cmp("protocol", StrVal(protocol))) >> ELSE <<>>)
    \o (IF port.some
        THEN << Match(protocol, Cmp("dport", StrVal(ToString(port.v)))) >> ELSE <<>>)
    \o (IF source.some
        THEN << Match("ip", Cmp("saddr", StrVal(source.v))) >> ELSE <<>>)
    \o << Counter >>

\* the rules a batch holds that add_firewall_rule wrote (they alone carry a counter)
AddedRules(batch) == {i \in 1..Len(batch) : "counter" \in Range(batch[i])}

\* add_firewall_rule as it would be if the rule were stored before the action is matched
AddFirewallRuleEager(chain, protocol, port, source, action) ==
    LET batch == BatchClone(nftables_handle)
        expressions == RuleExpressions(protocol, port, source)
        act == ActionExpr(action)
        call == [op |-> "add_firewall_rule", chain |-> chain, protocol |-> protocol,
                 port |-> port, source |-> source, action |-> action,
                 found |-> nftables_handle]
    IN  /\ IF act.some
           THEN /\ nftables_handle' =
                       BatchAdd(batch,
                                Add("Inet", "filter", chain, Append(expressions, act.v)),
                                None)
                /\ last' = call @@ [result |-> Ok]
           ELSE /\ nftables_handle' =
                       BatchAdd(batch, Add("Inet", "filter", chain, expressions), None)
                /\ last' = call @@ [result |-> Err("Unsupported action")]
        /\ UNCHANGED <<interfaces, links, kaddrs, ruleset, calls, scriptVars, printers>>

\* add_firewall_rule
AddFirewallRule(chain, protocol, port, source, action) ==
    LET batch == BatchClone(nftables_handle)
        expressions == RuleExpressions(protocol, port, source)
        act == ActionExpr(action)
        call == [op |-> "add_firewall_rule", chain |-> chain, protocol |-> protocol,
                 port |-> port, source |-> source, action |-> action,
                 found |-> nftables_handle]
    IN  /\ IF act.some
           THEN /\ nftables_handle' =
                       BatchAdd(batch,
                                Add("Inet", "filter", chain, Append(expressions, act.v)),
                                None)
                /\ last' = call @@ [result |-> Ok]
           ELSE /\ nftables_handle' = nftables_handle
                /\ last' = call @@ [result |-> Err("Unsupported action")]
        /\ UNCHANGED <<interfaces, links, kaddrs, ruleset, calls, scriptVars, printers>>

(***************************************************************************)
(* NetworkManager: locks                                                   *)
(***************************************************************************)
\* the fields of NetworkManager that stand behind a Mutex
Locks == {"interfaces"}

\* the shared fields a handler reads or writes, each with the locks the handler holds
\* at that point.  load_config locks the store for its assignment; in
\* initialize_nftables the guard of the store lives to the end of the function, over
\* the assignment of the batch; the other handlers take no lock.
Accesses(op) ==
    CASE op = "load_config" ->
            { [field |-> "interfaces", held |-> {"interfaces"}] }
      [] op = "initialize_nftables" ->
            { [field |-> "interfaces", held |-> {"interfaces"}],
              [field |-> "nftables_handle", held |-> {"interfaces"}] }
      [] op = "add_firewall_rule" ->
            { [field |-> "nftables_handle", held |-> {}] }
      [] op = "get_nftables_rules" ->
            { [field |-> "nftables_handle", held |-> {}] }
      [] OTHER -> {}

\* the locks a handler holds while a kernel request or a run of the tool is under way
\* (setup_interface, get_interfaces and get_nftables_rules take no lock;
\* load_config, initialize_nftables and add_firewall_rule make no such call)
HeldDuringExternal(op) == {}

(***************************************************************************)
(* add_firewall_rule calls that run side by side.  nftables_handle is a    *)
(* plain field of NetworkManager: no lock stands between the clone of the  *)
(* stored batch and the assignment that replaces it.                       *)
(***************************************************************************)
\* the callers that may be inside add_firewall_rule at the same time
Callers == {"A", "B"}

\* a caller that has not called
Idle == [pc |-> "idle"]

\* the callers other than t that hold a clone and have not stored yet
InFlight(t) == {u \in Callers \ {t} : calls[u].pc = "cloned"}

\* what the assignment of `batch` to the field can leave there when it is not ordered
\* with another caller's access to the field (a data race): the batch, or the batch
\* with its last command cut short
RacedAssign(batch) ==
    {batch, [batch EXCEPT ![Len(batch)] = SubSeq(@, 1, Len(@) - 1)]}

\* add_firewall_rule up to the clone of the stored batch
AddRuleClone(t, chain, protocol, port, source, action) ==
    /\ calls[t].pc = "idle"
    /\ calls' = [u \in Callers |->
                    IF u = t
                    THEN [pc |-> "cloned", chain |-> chain, protocol |-> protocol,
                          port |-> port, source |-> source, action |-> action,
                          batch |-> BatchClone(nftables_handle),
                          raced |-> InFlight(t) # {}]
                    ELSE IF calls[u].pc = "cloned" THEN [calls[u] EXCEPT !.raced = TRUE]
                    ELSE calls[u]]
    /\ UNCHANGED <<interfaces, nftables_handle, links, kaddrs, ruleset, last, scriptVars, printers>>

\* add_firewall_rule from the clone on: the expressions, the action, batch.add and the
\* assignment of the caller's batch to the field
AddRuleStore(t) ==
    /\ calls[t].pc = "cloned"
    /\ LET c == calls[t]
           expressions == RuleExpressions(c.protocol, c.port, c.source)
           act == ActionExpr(c.action)
           call == [op |-> "add_firewall_rule", chain |-> c.chain, protocol |-> c.protocol,
                    port |-> c.port, source |-> c.source, action |-> c.action,
                    found |-> c.batch]
       IN  IF act.some
           THEN LET batch == BatchAdd(c.batch,
                                      Add("Inet", "filter", c.chain,
                                          Append(expressions, act.v)),
                                      None)
                IN  /\ nftables_handle' \in
                            (IF c.raced THEN RacedAssign(batch) ELSE {batch})
                    /\ calls' = [calls EXCEPT ![t] =
                                    [pc |-> "returned", result |-> Ok,
                                     rule |-> batch[Len(batch)]]]
                    /\ last' = call @@ [result |-> Ok]
           ELSE /\ nftables_handle' = nftables_handle
                /\ calls' = [calls EXCEPT ![t] =
                                [pc |-> "returned", result |-> Err("Unsupported action")]]
                /\ last' = call @@ [result |-> Err("Unsupported action")]
    /\ UNCHANGED <<interfaces, links, kaddrs, ruleset, scriptVars, printers>>

\* delete_firewall_rule: logs the handle and returns Ok
DeleteFirewallRule(rule_handle) ==
    /\ last' = [op |-> "delete_firewall_rule", rule_handle |-> rule_handle,
                found |-> nftables_handle, result |-> Ok]
    /\ UNCHANGED <<interfaces, nftables_handle, links, kaddrs, ruleset, calls, scriptVars, printers>>

(***************************************************************************)
(* The host's rule tool (nft) and the live ruleset                         *)
(***************************************************************************)
\* one rule of the live ruleset: the handle the host gave it and its words
HostRule(handle, text) == [handle |-> handle, text |-> text]

\* what `nft list ruleset` writes: the words of each rule and a line feed
ListRuleset(rs) == Flatten([i \in 1..Len(rs) |-> rs[i].text \o <<"\n">>])

\* a run of the tool: it could not be started, or it ended with a status
ToolMissing == [started |-> FALSE]
ToolExit(success, stdout) == [started |-> TRUE, success |-> success, stdout |-> stdout]

\* the ways a run of `nft list ruleset` can end
ListRuns(rs) == {ToolMissing, ToolExit(FALSE, <<>>), ToolExit(FALSE, ListRuleset(rs)),
                 ToolExit(TRUE, ListRuleset(rs))}

RECURSIVE LinesFrom(_, _, _)
\* str::lines from the words `out`, `cur` being the words of the line begun (if begun)
LinesFrom(out, cur, begun) ==
    IF out = <<>> THEN (IF begun THEN <<cur>> ELSE <<>>)
    ELSE IF Head(out) = "\n"
    THEN << IF cur # <<>> /\ cur[Len(cur)] = "\r" THEN SubSeq(cur, 1, Len(cur) - 1) ELSE cur >>
         \o LinesFrom(Tail(out), <<>>, FALSE)
    ELSE LinesFrom(Tail(out), Append(cur, Head(out)), TRUE)

\* str::lines: the text cut at each line feed (a carriage return before it dropped);
\* a line feed at the very end begins no further line
Lines(out) == LinesFrom(out, <<>>, FALSE)

\* get_nftables_rules as it would be if it always returned the stored commands
GetNftablesRulesStoredOnly(run) ==
    /\ last' = [op |-> "get_nftables_rules", tool |-> <<run>>,
                value |-> nftables_handle]
    /\ UNCHANGED <<links, kaddrs, interfaces, nftables_handle, ruleset, calls, scriptVars, printers>>

\* get_nftables_rules: the lines the tool wrote if it ran and succeeded, else the
\* commands of the stored batch
GetNftablesRules(run) ==
    /\ last' = [op |-> "get_nftables_rules", tool |-> <<run>>,
                value |-> IF run.started /\ run.success THEN Lines(run.stdout)
                          ELSE nftables_handle]
    /\ UNCHANGED <<links, kaddrs, interfaces, nftables_handle, ruleset, calls, scriptVars, printers>>

\* the host: the live ruleset becomes another one (the program never writes it)
HostRulesetChanges(rs) ==
    /\ ruleset # rs
    /\ ruleset' = rs
    /\ UNCHANGED <<links, kaddrs, interfaces, nftables_handle, calls, last, scriptVars, printers>>

(***************************************************************************)
(* The kernel behind the rtnetlink handle                                  *)
(***************************************************************************)
\* a link: [name, index, up (IFF_UP), oper (IFLA_OPERSTATE)]
Link(name, index) == [name |-> name, index |-> index, up |-> FALSE, oper |-> "Down"]

\* an address: [index of its link, ip (four octets), prefix]
KAddr(index, ip, prefix) == [index |-> index, ip |-> ip, prefix |-> prefix]

\* GetInterfaceIndex as it would be if only the links found at the first query were
\* looked through
GetInterfaceIndexCached(ls, name) ==
    LET hits == {i \in 1..1 : ls[i].name = name}
    IN  IF hits = {} THEN None
        ELSE Some(ls[CHOOSE i \in hits : \A j \in hits : i <= j].index)

\* link().get().match_name(name): the index of the first link of that name
GetInterfaceIndex(ls, name) ==
    LET hits == {i \in 1..Len(ls) : ls[i].name = name}
    IN  IF hits = {} THEN None
        ELSE Some(ls[CHOOSE i \in hits : \A j \in hits : i <= j].index)

\* KernelSetUp as it would be if the request flipped the flag
KernelSetUpToggle(ls, index) ==
    [i \in 1..Len(ls) |-> IF ls[i].index = index THEN [ls[i] EXCEPT !.up = ~@] ELSE ls[i]]

\* link().set(index).up()
KernelSetUp(ls, index) ==
    [i \in 1..Len(ls) |-> IF ls[i].index = index THEN [ls[i] EXCEPT !.up = TRUE] ELSE ls[i]]

\* KernelAddrsOf as it would be if the dump ended after its first message
KernelAddrsOfFirst(as, index) ==
    LET OnLink(a) == a.index = index
        all == SelectSeq(as, OnLink)
    IN  IF all = <<>> THEN all ELSE << Head(all) >>

\* address().get().set_link_index_filter(index)
KernelAddrsOf(as, index) ==
    LET OnLink(a) == a.index = index IN SelectSeq(as, OnLink)

\* the addresses on the link of that name, none when there is no such link
KernelAddrsOfName(ls, as, name) ==
    LET idx == GetInterfaceIndex(ls, name)
    IN  IF idx.some THEN KernelAddrsOf(as, idx.v) ELSE <<>>

\* KernelDelAddr as it would be if a deletion took effect only once the whole
\* replacement had gone through
KernelDelAddrKeeps(as, a) == as

\* address().del(a)
KernelDelAddr(as, a) ==
    LET Other(b) == b # a IN SelectSeq(as, Other)

RECURSIVE KernelDelAll(_, _)
KernelDelAll(as, dels) ==
    IF dels = <<>> THEN as ELSE KernelDelAll(KernelDelAddr(as, Head(dels)), Tail(dels))

\* RTM_NEWADDR is refused for a prefix longer than the address or an address already there
KernelAcceptsAddr(as, a) == a.prefix <= 32 /\ a \notin Range(as)

\* address().add(index, ip, prefix)
KernelAddAddr(as, a) == Append(as, a)

(***************************************************************************)
(* NetworkManager: the interface path                                      *)
(***************************************************************************)
\* the text of one address in get_interfaces: the ip, then "/" and the prefix length
AddrText(a) == FormatIp(a.ip) \o <<"/">> \o FormatNum(a.prefix)

\* GetInterfaces as it would be if an address were pushed onto the entry whose place
\* in the list is the address's index
GetInterfacesByPlace(ls, as) ==
    [i \in 1..Len(ls) |->
        LET Mine(a) == a.index = i
            mine == SelectSeq(as, Mine)
        IN  [name |-> ls[i].name,
             addresses |-> [k \in 1..Len(mine) |-> AddrText(mine[k])],
             is_up |-> (ls[i].oper = "Up")]]

\* get_interfaces: one InterfaceInfo per link; every address is pushed onto each entry
\* whose name resolves to the address's index
GetInterfaces(ls, as) ==
    [i \in 1..Len(ls) |->
        LET Mine(a) == Some(a.index) = GetInterfaceIndex(ls, ls[i].name)
            mine == SelectSeq(as, Mine)
        IN  [name |-> ls[i].name,
             addresses |-> [k \in 1..Len(mine) |-> AddrText(mine[k])],
             is_up |-> (ls[i].oper = "Up")]]

\* GetInterfacesCall as it would be if the call emptied the stored batch
GetInterfacesCallClearsBatch(fails) ==
    /\ last' = IF fails THEN [op |-> "get_interfaces", result |-> Err("netlink")]
               ELSE [op |-> "get_interfaces", result |-> Ok,
                     value |-> GetInterfaces(links, kaddrs)]
    /\ nftables_handle' = BatchNew
    /\ UNCHANGED <<links, kaddrs, interfaces, ruleset, calls, scriptVars, printers>>

\* get_interfaces as a call; a netlink error ends it with `?`
GetInterfacesCall(fails) ==
    /\ last' = IF fails THEN [op |-> "get_interfaces", result |-> Err("netlink")]
               ELSE [op |-> "get_interfaces", result |-> Ok,
                     value |-> GetInterfaces(links, kaddrs)]
    /\ UNCHANGED <<links, kaddrs, interfaces, nftables_handle, ruleset, calls, scriptVars, printers>>

\* setup_interface.  failAt = 1: the kernel refuses the link request; failAt = k + 1:
\* it refuses the k-th deletion; failAt = n + 2 (n addresses on the link): it refuses
\* the addition; failAt = 0: it refuses nothing of its own accord.  requests lists the
\* link and address changes sent to the kernel, the refused one included.
SetupInterface(config, failAt) ==
    LET if_index == GetInterfaceIndex(links, config.name)
        call == [op |-> "setup_interface", config |-> config]
        Return(res, reqs) == last' = call @@ [result |-> res, requests |-> reqs]
    IN
    /\ UNCHANGED <<interfaces, nftables_handle, ruleset, calls, scriptVars, printers>>
    /\ IF ~if_index.some
       THEN /\ Return(Err("Interface not found"), <<>>)
            /\ UNCHANGED <<links, kaddrs>>
       ELSE IF failAt = 1
       THEN /\ Return(Err("netlink"), <<"link_set_up">>)
            /\ UNCHANGED <<links, kaddrs>>
       ELSE
       /\ links' = KernelSetUp(links, if_index.v)
       /\ IF ~config.address.some
          THEN /\ Return(Ok, <<"link_set_up">>)
               /\ UNCHANGED kaddrs
          ELSE
          LET addr_parts == Split(config.address.v, "/")
              ip_addr == ParseIpAddr(addr_parts[1])
              prefix_len == ParseU8(addr_parts[2])
              existing == KernelAddrsOf(kaddrs, if_index.v)
              n == Len(existing)
              Dels(k) == [j \in 1..k |-> "addr_del"]
          IN
          IF Len(addr_parts) # 2
          THEN /\ Return(Err("Invalid address format, expected IP/PREFIX"), <<"link_set_up">>)
               /\ UNCHANGED kaddrs
          ELSE IF ~ip_addr.some
          THEN /\ Return(Err("Invalid IP address"), <<"link_set_up">>)
               /\ UNCHANGED kaddrs
          ELSE IF ~prefix_len.some
          THEN /\ Return(Err("Invalid prefix length"), <<"link_set_up">>)
               /\ UNCHANGED kaddrs
          ELSE IF failAt \in 2..(n + 1)
          THEN /\ kaddrs' = KernelDelAll(kaddrs, SubSeq(existing, 1, failAt - 2))
               /\ Return(Err("netlink"), <<"link_set_up">> \o Dels(failAt - 1))
          ELSE
          LET cleared == KernelDelAll(kaddrs, existing)
              new == KAddr(if_index.v, ip_addr.v, prefix_len.v)
          IN  IF failAt = n + 2 \/ ~KernelAcceptsAddr(cleared, new)
              THEN /\ kaddrs' = cleared
                   /\ Return(Err("netlink"),
                             <<"link_set_up">> \o Dels(n) \o <<"addr_add">>)
              ELSE /\ kaddrs' = KernelAddAddr(cleared, new)
                   /\ Return(Ok, <<"link_set_up">> \o Dels(n) \o <<"addr_add">>)

\* the kernel: a link comes into being, with the next free index
KernelLinkAppears(name) ==
    /\ ~GetInterfaceIndex(links, name).some
    /\ links' = Append(links, Link(name, links[Len(links)].index + 1))
    /\ UNCHANGED <<kaddrs, interfaces, nftables_handle, ruleset, calls, last, scriptVars, printers>>

\* the kernel: a link that was brought up finds its carrier
KernelOperUp(i) ==
    /\ links[i].up /\ links[i].oper = "Down"
    /\ links' = [links EXCEPT ![i].oper = "Up"]
    /\ UNCHANGED <<kaddrs, interfaces, nftables_handle, ruleset, calls, last, scriptVars, printers>>

(***************************************************************************)
(* Inputs                                                                  *)
(***************************************************************************)
\* "10.0.0.1/24": well formed
AddrA == <<"1", "0", ".", "0", ".", "0", ".", "1", "/", "2", "4">>
\* "192.168.1.1/24": well formed (the address of src/main.rs)
AddrB == <<"1", "9", "2", ".", "1", "6", "8", ".", "1", ".", "1", "/", "2", "4">>
\* "10.0.0.1/024": well formed: u8 parsing accepts leading zeros
AddrZeroPrefix == <<"1", "0", ".", "0", ".", "0", ".", "1", "/", "0", "2", "4">>
\* "not-an-ip/24": the address part is no IP address
AddrNotAnIp == <<"n", "o", "t", "-", "a", "n", "-", "i", "p", "/", "2", "4">>
\* "10.0.0.1": one part
AddrNoPrefix == <<"1", "0", ".", "0", ".", "0", ".", "1">>
\* "10.0.0.1/24/1": three parts
AddrThreeParts == <<"1", "0", ".", "0", ".", "0", ".", "1", "/", "2", "4", "/", "1">>
\* "10.0.0.1/xx": the prefix is no number
AddrBadPrefix == <<"1", "0", ".", "0", ".", "0", ".", "1", "/", "x", "x">>
\* "10.0.0.1/33": parses; no IPv4 prefix is longer than 32
AddrPrefix33 == <<"1", "0", ".", "0", ".", "0", ".", "1", "/", "3", "3">>

SetupAddresses ==
    {None} \cup {Some(a) : a \in {AddrA, AddrB, AddrZeroPrefix, AddrNotAnIp, AddrNoPrefix,
                                 AddrThreeParts, AddrBadPrefix, AddrPrefix33}}

\* the names setup_interface is asked for: eth9 is never a link
SetupNames == {"eth0", "eth1", "eth9"}

SetupConfigs ==
    {InterfaceConfig(n, None, a, z) :
        n \in SetupNames, a \in SetupAddresses, z \in {Some("lan")}}

\* the links that may come into being after start
LateLinks == {"eth1"}

\* the addresses eth0 (index 2) may carry before the first call
InitialAddrs ==
    { <<>>,
      << KAddr(2, <<10, 0, 0, 2>>, 24) >>,
      << KAddr(2, <<10, 0, 0, 2>>, 24), KAddr(2, <<172, 16, 0, 5>>, 16) >> }

\* the default configuration of src/main.rs
DefaultInterfaces ==
    << InterfaceConfig("eth0", Some(TRUE), None, Some("wan")),
       InterfaceConfig("eth1", None, Some(AddrB), Some("lan")) >>

Zoned(name, zone) == InterfaceConfig(name, None, None, zone)

\* the lists given to load_config: no zone, one zone, several zones, labels that are
\* neither "wan" nor "lan", a name declared twice (same zone, two zones)
ConfigLists ==
    { <<>>,
      DefaultInterfaces,
      << Zoned("eth0", Some("wan")) >>,
      << Zoned("eth0", Some("lan")), Zoned("eth1", Some("lan")) >>,
      << Zoned("eth0", Some("dmz")), Zoned("eth1", Some("WAN")) >>,
      << Zoned("eth0", None), Zoned("eth1", Some("lan")) >>,
      << Zoned("eth0", Some("wan")), Zoned("eth0", Some("lan")) >>,
      << Zoned("eth0", Some("dmz")), Zoned("eth0", Some("dmz")) >>,
      << Zoned("eth0", Some("dmz")), Zoned("eth0", Some("wan")) >>,
      << Zoned("eth0", Some("wan")), Zoned("eth1", Some("dmz")), Zoned("eth2", Some("wan")) >>,
      << Zoned("eth0", Some("wan")), Zoned("eth1", Some("lan")), Zoned("eth2", Some("dmz")) >> }

\* further lists given to load_config: entries without a zone label, alone, beside
\* labelled entries, and under a name that another entry labels
ZoneLists ==
    ConfigLists \cup
    { << Zoned("eth0", None) >>,
      << Zoned("eth0", None), Zoned("eth1", None) >>,
      << Zoned("eth0", Some("wan")), Zoned("eth1", None), Zoned("eth2", Some("lan")) >>,
      << Zoned("eth0", None), Zoned("eth0", Some("wan")) >> }

\* the arguments given to add_firewall_rule: every combination of a protocol that is
\* named, "any" or empty with a port and a source that are present or absent
RuleChains == {"input"}
RuleProtocols == {"tcp", "any", ""}
RulePorts == {None, Some(8080)}
RuleSources == {None, Some("10.0.0.0/8")}
RuleRequests == RuleChains \X RuleProtocols \X RulePorts \X RuleSources

\* "ACCEPT", "drop", "reject"
RuleActions == { <<"A", "C", "C", "E", "P", "T">>, <<"d", "r", "o", "p">>,
                 <<"r", "e", "j", "e", "c", "t">> }

\* the requests made while the configuration varies
FwRequests ==
    { <<"input", "tcp", Some(8080), Some("10.0.0.0/8")>>,
      <<"input", "any", None, None>>,
      <<"custom", "", Some(8080), None>>,
      <<"forward", "udp", None, Some("10.0.0.0/8")>> }

RuleHandles == {7}

\* the live rulesets of the host: none, one rule, two rules (one carries handle 7)
HostRulesets ==
    { <<>>,
      << HostRule(3, <<"ct", "state", "established", "accept">>) >>,
      << HostRule(3, <<"ct", "state", "established", "accept">>),
         HostRule(7, <<"tcp", "dport", "22", "accept">>) >> }

\* the handles delete_firewall_rule is asked for: 9 is never given to a rule
DeleteHandles == {7, 9}

\* the requests made while the live ruleset varies
ToolRequests == { <<"input", "tcp", Some(8080), None>> }

\* the requests of the callers that run side by side
RaceRequests ==
    { <<"input", "tcp", Some(8080), None>>,
      <<"input", "any", None, Some("10.0.0.0/8")>> }

\* the setup requests made beside firewall requests: a link that is there and one
\* that is not, no address, a well-formed one, a malformed one
BothConfigs ==
    {InterfaceConfig(n, None, a, Some("lan")) :
        n \in {"eth0", "eth9"}, a \in {None, Some(AddrA), Some(AddrNotAnIp)}}

\* the rules add_firewall_rule may have appended to the stored batch
MaxRules == 1

\* the requests made one after another
AppendRequests ==
    { <<"input", "tcp", Some(8080), None>>,
      <<"forward", "udp", None, Some("10.0.0.0/8")>> }

\* the rules successive add_firewall_rule calls may have appended
MaxAppended == 3

(***************************************************************************)
(* HashMap<K, V> as a function over the keys present                       *)
(***************************************************************************)
EmptyMap == [k \in {} |-> k]
Insert(map, key, value) ==
    [k \in DOMAIN map \cup {key} |-> IF k = key THEN value ELSE map[k]]
Remove(map, key) == [k \in DOMAIN map \ {key} |-> map[k]]
Values(map) == {map[k] : k \in DOMAIN map}

(***************************************************************************)
(* ScriptsManager (src/scripts.rs): the script repository with its         *)
(* approval flag, and the runs of approved scripts.  The time stamps, the  *)
(* description, the category and the tags of a script are left out: no     *)
(* branch of the manager reads them.  The script files are written by      *)
(* save_script and read only by ScriptsManager::new.                       *)
(***************************************************************************)
ScriptIds == {"s1", "s2"}
ScriptNames == {"backup"}
Contents == {"Get-Date", "Remove-Item"}
Users == {"admin"}

\* the runs of scripts the model follows
MaxRuns == 2

\* ScriptsManager::new over an empty scripts directory
InitScripts ==
    /\ scripts = EmptyMap
    /\ execution_results = <<>>
    /\ handed = <<>>
    /\ approved_content = EmptyMap

\* create_script: a script of a fresh id, unapproved, saved and then stored
CreateScript(id, name, content, saveFails) ==
    /\ id \notin DOMAIN scripts
    /\ LET script == [id |-> id, name |-> name, content |-> content,
                      is_approved |-> FALSE, approved_by |-> None]
       IN IF saveFails
          THEN /\ last' = [op |-> "create_script", id |-> id, result |-> Err("io")]
               /\ UNCHANGED <<scripts, approved_content>>
          ELSE /\ scripts' = Insert(scripts, id, script)
               /\ UNCHANGED approved_content
               /\ last' = [op |-> "create_script", id |-> id, result |-> Ok]
    /\ UNCHANGED <<netVars, execution_results, handed, printers>>

\* update_script keeping the approval whatever is updated
UpdatedKeepsApproval(script, name, content) ==
    [script EXCEPT !.name = IF name.some THEN name.v ELSE @,
                   !.content = IF content.some THEN content.v ELSE @]

\* update_script, lines 161-171: the new name; the new content takes the approval away
Updated(script, name, content) ==
    [script EXCEPT !.name = IF name.some THEN name.v ELSE @,
                   !.content = IF content.some THEN content.v ELSE @,
                   !.is_approved = IF content.some THEN FALSE ELSE @,
                   !.approved_by = IF content.some THEN None ELSE @]

UpdateScript(id, name, content, saveFails) ==
    /\ IF id \notin DOMAIN scripts
       THEN /\ last' = [op |-> "update_script", id |-> id, result |-> Err("Script not found")]
            /\ UNCHANGED scripts
       ELSE IF saveFails
       THEN /\ last' = [op |-> "update_script", id |-> id, result |-> Err("io")]
            /\ UNCHANGED scripts
       ELSE /\ scripts' = Insert(scripts, id, Updated(scripts[id], name, content))
            /\ last' = [op |-> "update_script", id |-> id, result |-> Ok]
    /\ UNCHANGED <<netVars, execution_results, handed, approved_content, printers>>

\* delete_script: the file is removed, then the entry
DeleteScript(id, removeFails) ==
    /\ IF id \notin DOMAIN scripts
       THEN /\ last' = [op |-> "delete_script", id |-> id, result |-> Err("Script not found")]
            /\ UNCHANGED <<scripts, approved_content>>
       ELSE IF removeFails
       THEN /\ last' = [op |-> "delete_script", id |-> id, result |-> Err("io")]
            /\ UNCHANGED <<scripts, approved_content>>
       ELSE /\ scripts' = Remove(scripts, id)
            /\ approved_content' = Remove(approved_content, id)
            /\ last' = [op |-> "delete_script", id |-> id, result |-> Ok]
    /\ UNCHANGED <<netVars, execution_results, handed, printers>>

\* approve_script: the script as it stands is marked approved, saved and stored
ApproveScript(id, approved_by, saveFails) ==
    /\ IF id \notin DOMAIN scripts
       THEN /\ last' = [op |-> "approve_script", id |-> id, result |-> Err("Script not found")]
            /\ UNCHANGED <<scripts, approved_content>>
       ELSE IF saveFails
       THEN /\ last' = [op |-> "approve_script", id |-> id, result |-> Err("io")]
            /\ UNCHANGED <<scripts, approved_content>>
       ELSE /\ scripts' = Insert(scripts, id, [scripts[id] EXCEPT !.is_approved = TRUE,
                                                !.approved_by = Some(approved_by)])
            /\ approved_content' = Insert(approved_content, id, scripts[id].content)
            /\ last' = [op |-> "approve_script", id |-> id, result |-> Ok]
    /\ UNCHANGED <<netVars, execution_results, handed, printers>>

\* what becomes of a run: the temporary file cannot be written, the interpreter cannot
\* be started, or it runs the file and exits with or without success
RunOutcomes == {"file_error", "spawn_error", "exit_ok", "exit_fail"}

ScriptExecutionResult(id, outcome) == [script_id |-> id, success |-> outcome = "exit_ok"]

\* execute_script: the stored content of an approved script goes to a temporary file
\* and that file to the interpreter; the result of the run is recorded
ExecuteScript(id, outcome) ==
    /\ IF id \notin DOMAIN scripts
       THEN /\ last' = [op |-> "execute_script", id |-> id, result |-> Err("Script not found")]
            /\ UNCHANGED <<execution_results, handed>>
       ELSE IF ~scripts[id].is_approved
       THEN /\ last' = [op |-> "execute_script", id |-> id,
                        result |-> Err("Cannot execute unapproved script")]
            /\ UNCHANGED <<execution_results, handed>>
       ELSE IF outcome = "file_error"
       THEN /\ last' = [op |-> "execute_script", id |-> id, result |-> Err("io")]
            /\ UNCHANGED <<execution_results, handed>>
       ELSE /\ Len(execution_results) < MaxRuns
            /\ handed' = IF outcome = "spawn_error" THEN handed
                         ELSE Append(handed, scripts[id].content)
            /\ execution_results' = Append(execution_results, ScriptExecutionResult(id, outcome))
            /\ last' = [op |-> "execute_script", id |-> id, result |-> Ok,
                        value |-> ScriptExecutionResult(id, outcome)]
    /\ UNCHANGED <<netVars, scripts, approved_content, printers>>

(***************************************************************************)
(* PrinterManager (src/printers.rs): the printer registry.  Of a Printer   *)
(* the id and the ip_address are kept: the registry reads no other field.  *)
(***************************************************************************)
PrinterIds == {"p1", "p2", "p3"}
IpAddresses == {"10.0.0.1", "10.0.0.2"}
Printer(id, ip_address) == [id |-> id, ip_address |-> ip_address]
Printers == {Printer(id, ip) : id \in PrinterIds, ip \in IpAddresses}

\* PrinterManager::new
InitPrinters == printers = EmptyMap

\* add_printer: refused when an entry has the address, else stored under the printer's id
AddPrinter(printer) ==
    /\ IF \E p \in Values(printers) : p.ip_address = printer.ip_address
       THEN /\ last' = [op |-> "add_printer", printer |-> printer, found |-> printers,
                        result |-> Err("A printer with IP already exists")]
            /\ UNCHANGED printers
       ELSE /\ printers' = Insert(printers, printer.id, printer)
            /\ last' = [op |-> "add_printer", printer |-> printer, found |-> printers,
                        result |-> Ok]
    /\ UNCHANGED <<netVars, scriptVars>>

\* update_printer: refused for a key not present, and when an entry whose id field is
\* not the key has the address; else the printer is stored under the key
UpdatePrinter(id, updated_printer) ==
    /\ IF id \notin DOMAIN printers
       THEN /\ last' = [op |-> "update_printer", id |-> id, printer |-> updated_printer,
                        found |-> printers, result |-> Err("Printer not found")]
            /\ UNCHANGED printers
       ELSE IF \E p \in Values(printers) :
                    p.id # id /\ p.ip_address = updated_printer.ip_address
       THEN /\ last' = [op |-> "update_printer", id |-> id, printer |-> updated_printer,
                        found |-> printers, result |-> Err("A printer with IP already exists")]
            /\ UNCHANGED printers
       ELSE /\ printers' = Insert(printers, id, updated_printer)
            /\ last' = [op |-> "update_printer", id |-> id, printer |-> updated_printer,
                        found |-> printers, result |-> Ok]
    /\ UNCHANGED <<netVars, scriptVars>>

\* delete_printer
DeletePrinter(id) ==
    /\ IF id \notin DOMAIN printers
       THEN /\ last' = [op |-> "delete_printer", id |-> id, found |-> printers,
                        result |-> Err("Printer not found")]
            /\ UNCHANGED printers
       ELSE /\ printers' = Remove(printers, id)
            /\ last' = [op |-> "delete_printer", id |-> id, found |-> printers, result |-> Ok]
    /\ UNCHANGED <<netVars, scriptVars>>

(***************************************************************************)
(* Specifications                                                          *)
(***************************************************************************)
\* NetworkManager::new: an empty store and an empty batch; beside it the script
\* repository and the printer registry as constructed
InitManager ==
    /\ interfaces = <<>>
    /\ nftables_handle = BatchNew
    /\ last = [op |-> "new", result |-> Ok]
    /\ calls = [t \in Callers |-> Idle]
    /\ InitScripts
    /\ InitPrinters

InitKernel ==
    /\ links = << Link("eth0", 2) >>
    /\ kaddrs \in InitialAddrs
    /\ ruleset = <<>>

Init == InitManager /\ InitKernel

\* the same over a kernel whose only link carries no address
InitFw == InitManager /\ links = << Link("eth0", 2) >> /\ kaddrs = <<>> /\ ruleset = <<>>

\* a call of add_firewall_rule whose rule fits the bound
AddRuleWithin(req, action) ==
    /\ ActionExpr(action).some => Cardinality(AddedRules(nftables_handle)) < MaxRules
    /\ AddFirewallRule(req[1], req[2], req[3], req[4], action)

NextFw ==
    \/ \E list \in ConfigLists : LoadConfig(list)
    \/ InitializeNftables
    \/ \E req \in FwRequests, action \in RuleActions : AddRuleWithin(req, action)
    \/ \E h \in RuleHandles : DeleteFirewallRule(h)

NextRule ==
    \/ \E list \in {<<>>, DefaultInterfaces} : LoadConfig(list)
    \/ InitializeNftables
    \/ \E req \in RuleRequests, action \in RuleActions :
            AddRuleWithin(req, action)
    \/ \E h \in RuleHandles : DeleteFirewallRule(h)

NextNet ==
    \/ \E config \in SetupConfigs :
        \E failAt \in 0..(Len(KernelAddrsOfName(links, kaddrs, config.name)) + 2) :
            SetupInterface(config, failAt)
    \/ \E fails \in BOOLEAN : GetInterfacesCall(fails)
    \/ \E name \in LateLinks : KernelLinkAppears(name)
    \/ \E i \in 1..Len(links) : KernelOperUp(i)

\* NetworkManager::new on a host with any of the live rulesets
InitTool ==
    /\ InitManager
    /\ links = << Link("eth0", 2) >>
    /\ kaddrs = <<>>
    /\ ruleset \in HostRulesets

NextTool ==
    \/ \E list \in {<<>>, DefaultInterfaces} : LoadConfig(list)
    \/ InitializeNftables
    \/ \E req \in ToolRequests, action \in RuleActions : AddRuleWithin(req, action)
    \/ \E h \in DeleteHandles : DeleteFirewallRule(h)
    \/ \E run \in ListRuns(ruleset) : GetNftablesRules(run)
    \/ \E rs \in HostRulesets : HostRulesetChanges(rs)

NextZone ==
    \/ \E list \in ZoneLists : LoadConfig(list)
    \/ InitializeNftables

NextRace ==
    \/ \E list \in {DefaultInterfaces} : LoadConfig(list)
    \/ InitializeNftables
    \/ \E t \in Callers, req \in RaceRequests, action \in RuleActions :
            AddRuleClone(t, req[1], req[2], req[3], req[4], action)
    \/ \E t \in Callers : AddRuleStore(t)

NextBoth ==
    \/ \E list \in {DefaultInterfaces} : LoadConfig(list)
    \/ InitializeNftables
    \/ \E req \in ToolRequests, action \in RuleActions : AddRuleWithin(req, action)
    \/ \E h \in RuleHandles : DeleteFirewallRule(h)
    \/ \E run \in ListRuns(ruleset) : GetNftablesRules(run)
    \/ \E config \in BothConfigs :
        \E failAt \in 0..(Len(KernelAddrsOfName(links, kaddrs, config.name)) + 2) :
            SetupInterface(config, failAt)
    \/ \E fails \in BOOLEAN : GetInterfacesCall(fails)

\* a call of add_firewall_rule among successive ones
AddRuleUpTo(req, action) ==
    /\ ActionExpr(action).some => Cardinality(AddedRules(nftables_handle)) < MaxAppended
    /\ AddFirewallRule(req[1], req[2], req[3], req[4], action)

NextAppend ==
    \/ \E list \in {DefaultInterfaces} : LoadConfig(list)
    \/ InitializeNftables
    \/ \E req \in AppendRequests, action \in RuleActions : AddRuleUpTo(req, action)

\* the script repository
NextScripts ==
    \/ \E id \in ScriptIds, name \in ScriptNames, content \in Contents, saveFails \in BOOLEAN :
            CreateScript(id, name, content, saveFails)
    \/ \E id \in ScriptIds, name \in {None} \cup {Some(n) : n \in ScriptNames},
           content \in {None} \cup {Some(c) : c \in Contents}, saveFails \in BOOLEAN :
            UpdateScript(id, name, content, saveFails)
    \/ \E id \in ScriptIds, approved_by \in Users, saveFails \in BOOLEAN :
            ApproveScript(id, approved_by, saveFails)
    \/ \E id \in ScriptIds, removeFails \in BOOLEAN : DeleteScript(id, removeFails)
    \/ \E id \in ScriptIds, outcome \in RunOutcomes : ExecuteScript(id, outcome)

\* the printer registry
NextPrinters ==
    \/ \E printer \in Printers : AddPrinter(printer)
    \/ \E id \in PrinterIds, printer \in Printers : UpdatePrinter(id, printer)
    \/ \E id \in PrinterIds : DeletePrinter(id)

\* the firewall path while the configuration varies
SpecFw == InitFw /\ [][NextFw]_vars

\* the firewall path under every combination of add_firewall_rule's arguments
SpecRule == InitFw /\ [][NextRule]_vars

\* the interface path
SpecNet == Init /\ [][NextNet]_vars

\* configuration and regeneration alone, over more configurations
SpecZone == InitFw /\ [][NextZone]_vars

\* two callers of add_firewall_rule, each calling once
SpecRace == InitFw /\ [][NextRace]_vars

\* the interface path and the firewall path on one manager
SpecBoth == Init /\ [][NextBoth]_vars

\* add_firewall_rule calls one after another
SpecAppend == InitFw /\ [][NextAppend]_vars

\* the firewall path beside the host's rule tool and live ruleset
SpecTool == InitTool /\ [][NextTool]_vars

\* the script repository alone
SpecScripts == InitFw /\ [][NextScripts]_vars

\* the printer registry alone
SpecPrinters == InitFw /\ [][NextPrinters]_vars

(***************************************************************************)
(* Properties of the interface path (SpecNet)                              *)
(***************************************************************************)
\* the entries get_interfaces would return now for the links of that name
ListedAs(name) ==
    LET listing == GetInterfaces(links, kaddrs)
    IN  {listing[i] : i \in {j \in 1..Len(listing) : listing[j].name = name}}

SetupDone == last.op = "setup_interface" /\ last.result.ok /\ last.config.address.some

\* the address a well-formed "ip/prefix" text names, as get_interfaces writes addresses
Canonical(addr) ==
    LET parts == Split(addr, "/")
    IN  FormatIp(ParseIpAddr(parts[1]).v) \o <<"/">> \o FormatNum(ParseU8(parts[2]).v)

\* C1: once setup_interface has succeeded with address A on a link, get_interfaces
\* lists that link with the one address A and no other, whatever the link carried
\* before; for A written as "10.0.0.1/24" or "192.168.1.1/24" the listed text is A itself.
C1_FullReplace ==
    SetupDone =>
        /\ ListedAs(last.config.name) # {}
        /\ \A e \in ListedAs(last.config.name) :
            /\ e.addresses = << Canonical(last.config.address.v) >>
            /\ last.config.address.v \in {AddrA, AddrB} =>
                    e.addresses = << last.config.address.v >>

\* a successful setup with an address on a link that carried two addresses, while
\* another link carries an address of its own
C1_Witness ==
    /\ SetupDone
    /\ last.requests = <<"link_set_up", "addr_del", "addr_del", "addr_add">>
    /\ \E a \in Range(kaddrs) : Some(a.index) # GetInterfaceIndex(links, last.config.name)

\* text that setup_interface does not take for an "ip/prefix" address
Malformed(addr) ==
    LET parts == Split(addr, "/")
    IN  \/ Len(parts) # 2
        \/ ~ParseIpAddr(parts[1]).some
        \/ ~ParseU8(parts[2]).some

InvalidAddressErrors ==
    {"Invalid address format, expected IP/PREFIX", "Invalid IP address", "Invalid prefix length"}

\* C2: setup_interface with a malformed address on an existing link fails with an
\* invalid-address error and has sent the kernel no request: no link bring-up, no
\* address deletion, no address addition.
C2_MalformedAddressNoKernelRequest ==
    ( /\ last.op = "setup_interface"
      /\ GetInterfaceIndex(links, last.config.name).some
      /\ last.config.address.some
      /\ Malformed(last.config.address.v) ) =>
        /\ ~last.result.ok
        /\ last.result.err \in InvalidAddressErrors
        /\ last.requests = <<>>

SetupCalled == last.op = "setup_interface"

\* C19: after a setup_interface(config) that returned Ok, the store holds config as
\* its one entry for config.name (DHCP flag, address and zone as given), which is what
\* initialize_nftables would then derive the zone rules of that interface from.
C19_SetupStoresConfig ==
    (SetupCalled /\ last.result.ok) =>
        /\ \E i \in 1..Len(interfaces) : interfaces[i] = last.config
        /\ \A i \in 1..Len(interfaces) :
                interfaces[i].name = last.config.name => interfaces[i] = last.config

\* some link carries the name
Carried(name) == \E i \in 1..Len(links) : links[i].name = name

\* C20: a call of setup_interface for a name that no link carries when the call is
\* made fails with the not-found error and has sent the kernel no request, the links
\* and addresses being as they were; a call for a name that a link carries by then does
\* not fail so, whatever an earlier call for that name returned.
C20_UnknownNameNotFoundNoMutation ==
    [][ (last' # last /\ last'.op = "setup_interface") =>
            IF ~Carried(last'.config.name)
            THEN /\ last'.result = Err("Interface not found")
                 /\ last'.requests = <<>>
                 /\ UNCHANGED <<links, kaddrs>>
            ELSE last'.result # Err("Interface not found") ]_vars

\* setup_interface for eth1 has failed with the not-found error, with an address
\* asked for, and a link of that name has come into being since
C20_Witness ==
    /\ SetupCalled
    /\ last.config.name = "eth1"
    /\ last.config.address.some
    /\ last.result = Err("Interface not found")
    /\ Carried("eth1")

\* setup_interface without an address has succeeded
SetUpDone == SetupCalled /\ last.result.ok /\ ~last.config.address.some

\* C21: when setup_interface without an address has succeeded and the same request is
\* made again, the second call succeeds too (unless the kernel refuses the request of
\* its own accord) and leaves the up flag of every link and every address as the first
\* call left them.
C21_SetUpIdempotent ==
    [][ ( /\ SetUpDone
          /\ last'.op = "setup_interface"
          /\ last'.config = last.config
          /\ last'.result # Err("netlink") ) =>
            /\ last'.result.ok
            /\ \A i \in 1..Len(links) :
                    links'[i].index = links[i].index /\ links'[i].up = links[i].up
            /\ kaddrs' = kaddrs ]_vars

\* setup_interface without an address has succeeded on a link that carries addresses
\* and has found its carrier since: the state the second call starts from
C21_Witness ==
    /\ SetUpDone
    /\ \E i \in 1..Len(links) :
        /\ links[i].name = last.config.name
        /\ links[i].up /\ links[i].oper = "Up"
        /\ \E a \in Range(kaddrs) : a.index = links[i].index

\* the addresses the kernel enumerates with that index, in enumeration order, as text
AddrTextsAt(index) ==
    LET At(a) == a.index = index
        at == SelectSeq(kaddrs, At)
    IN  [k \in 1..Len(at) |-> AddrText(at[k])]

\* C22: a get_interfaces call that succeeds returns one entry per link of the kernel,
\* in enumeration order and under the link's name; the addresses of an entry are those
\* the kernel enumerates with the index of the entry's link, in enumeration order, and
\* every address the kernel enumerates has the index of exactly one link, so it stands
\* in exactly one entry and in none of another index.
C22_AddressesByIndex ==
    [][ (last' # last /\ last'.op = "get_interfaces" /\ last'.result.ok) =>
            /\ Len(last'.value) = Len(links)
            /\ \A i \in 1..Len(links) :
                /\ last'.value[i].name = links[i].name
                /\ last'.value[i].addresses = AddrTextsAt(links[i].index)
            /\ \A k \in 1..Len(kaddrs) :
                Cardinality({i \in 1..Len(links) : links[i].index = kaddrs[k].index}) = 1 ]_vars

\* get_interfaces has returned two entries, the first with two addresses and the
\* second with one
C22_Witness ==
    /\ last.op = "get_interfaces" /\ last.result.ok
    /\ Len(last.value) = 2
    /\ Len(last.value[1].addresses) = 2
    /\ Len(last.value[2].addresses) = 1

\* the addresses of a kernel that stand on the links of that name, and on the others
AddrsOn(ls, as, name) ==
    LET On(a) == \E i \in 1..Len(ls) : ls[i].name = name /\ ls[i].index = a.index
    IN  SelectSeq(as, On)
AddrsOff(ls, as, name) ==
    LET Off(a) == ~\E i \in 1..Len(ls) : ls[i].name = name /\ ls[i].index = a.index
    IN  SelectSeq(as, Off)

\* how many deletions the call sent
DelsSent(requests) == Cardinality({k \in 1..Len(requests) : requests[k] = "addr_del"})

\* C28: a setup_interface call that fails after it has sent address requests leaves
\* the link without the addresses it had deleted by then: when the d-th deletion is
\* refused the first d - 1 addresses are gone and the others stay, when the addition
\* is refused the link has no address; nothing is put back.  Whatever the outcome of
\* a call, the addresses of every other link are as they were.
C28_NoRollback ==
    [][ (last' # last /\ last'.op = "setup_interface") =>
            LET name == last'.config.name
                before == AddrsOn(links, kaddrs, name)
                after == AddrsOn(links', kaddrs', name)
                d == DelsSent(last'.requests)
            IN  /\ AddrsOff(links', kaddrs', name) = AddrsOff(links, kaddrs, name)
                /\ ~last'.result.ok =>
                        after = IF "addr_add" \in Range(last'.requests) THEN <<>>
                                ELSE IF d = 0 THEN before
                                ELSE SubSeq(before, d, Len(before)) ]_vars

\* the addition was refused after two deletions: the call has failed, the link has no
\* address left and another link has kept its own
C28_Witness ==
    /\ SetupCalled /\ ~last.result.ok
    /\ last.requests = <<"link_set_up", "addr_del", "addr_del", "addr_add">>
    /\ AddrsOn(links, kaddrs, last.config.name) = <<>>
    /\ AddrsOff(links, kaddrs, last.config.name) # <<>>

(***************************************************************************)
(* Properties of the firewall path (SpecFw, SpecRule)                      *)
(***************************************************************************)
\* nft commands as text, one piece per word
RuleHead(chain) == <<"add", "rule", "inet", "filter", chain>>
WanLine(x) == RuleHead("input") \o <<"meta", "iifname", x, "tcp", "dport", "22", "accept">>
LanLine(x) == RuleHead("input") \o <<"meta", "iifname", x, "accept">>
WebLine(x) ==
    RuleHead("input")
        \o <<"meta", "iifname", x, "tcp", "dport", "{", "80,", "443", "}", "accept">>

BaseLines ==
    << <<"flush", "table", "inet", "filter">>,
       <<"add", "table", "inet", "filter">>,
       <<"add", "chain", "inet", "filter", "input",
         "type filter hook input priority 0; policy drop;">>,
       <<"add", "chain", "inet", "filter", "forward",
         "type filter hook forward priority 0; policy drop;">>,
       <<"add", "chain", "inet", "filter", "output",
         "type filter hook output priority 0; policy accept;">>,
       RuleHead("input") \o <<"ct", "state", "{", "established,", "related", "}", "accept">>,
       RuleHead("input") \o <<"meta", "iifname", "lo", "accept">> >>

TemplateLine(zone, x) ==
    IF zone = "wan" THEN WanLine(x) ELSE IF zone = "lan" THEN LanLine(x) ELSE WebLine(x)

\* the line matches on inbound interface x
MatchesIif(line, x) ==
    \E j \in 1..(Len(line) - 1) : line[j] = "iifname" /\ line[j + 1] = x

\* the line accepts everything that comes in on x
AcceptsAllFrom(line, x) ==
    \E j \in 1..(Len(line) - 2) :
        line[j] = "iifname" /\ line[j + 1] = x /\ line[j + 2] = "accept"

\* the zone labels the stored configuration declares for a name
DeclaredZones(name) ==
    {interfaces[i].nftables_zone.v :
        i \in {j \in 1..Len(interfaces) :
                interfaces[j].name = name /\ interfaces[j].nftables_zone.some}}

ZonedEntries == {i \in 1..Len(interfaces) : interfaces[i].nftables_zone.some}

InitDone == last.op = "initialize_nftables"

\* C3: in the batch initialize_nftables stores, every interface declared with zone
\* "wan" and no other zone has the rule "iifname X tcp dport 22 accept" in chain input,
\* and no rule of the batch accepts everything from X.
C3_WanAllowsOnlySsh ==
    InitDone =>
        \A i \in 1..Len(interfaces) :
            DeclaredZones(interfaces[i].name) = {"wan"} =>
                /\ WanLine(interfaces[i].name) \in Range(nftables_handle)
                /\ \A line \in Range(nftables_handle) :
                        ~AcceptsAllFrom(line, interfaces[i].name)

\* a batch just built for a configuration with a wan-only interface beside a lan one
C3_Witness ==
    /\ InitDone
    /\ \E i, j \in 1..Len(interfaces) :
        /\ DeclaredZones(interfaces[i].name) = {"wan"}
        /\ DeclaredZones(interfaces[j].name) = {"lan"}
        /\ LanLine(interfaces[j].name) \in Range(nftables_handle)

\* C4: in the batch initialize_nftables stores, every interface declared with zone
\* "lan" has in chain input a rule that is only "iifname X accept": no protocol, no port.
C4_LanAcceptsAll ==
    InitDone =>
        \A i \in 1..Len(interfaces) :
            interfaces[i].nftables_zone = Some("lan") =>
                LanLine(interfaces[i].name) \in Range(nftables_handle)

\* a batch just built for a configuration with two lan interfaces
C4_Witness ==
    /\ InitDone
    /\ Cardinality({interfaces[i].name :
            i \in {j \in 1..Len(interfaces) : interfaces[j].nftables_zone = Some("lan")}}) = 2

\* C5: initialize_nftables succeeds, and for every interface declared with a zone label
\* other than "wan" and "lan" the batch holds exactly one rule matching on that
\* interface, the rule "iifname X tcp dport { 80, 443 } accept".
C5_OtherZoneExactlyOneWebRule ==
    InitDone =>
        /\ last.result.ok
        /\ \A i \in 1..Len(interfaces) :
            ( /\ interfaces[i].nftables_zone.some
              /\ interfaces[i].nftables_zone.v \notin {"wan", "lan"} ) =>
                LET x == interfaces[i].name
                    mine == {k \in 1..Len(nftables_handle) : MatchesIif(nftables_handle[k], x)}
                IN  /\ Cardinality(mine) = 1
                    /\ \A k \in mine : nftables_handle[k] = WebLine(x)

AddCalled == last.op = "add_firewall_rule"

SupportedAction(action) == ToLowercase(action) \in {AcceptText, DropText}

\* the decimal text of the ports requested
PortText(port) == IF port = 8080 THEN "8080" ELSE "?"

\* the words a successful add_firewall_rule call is to leave as the last command
ExpectedRuleLine(call) ==
    RuleHead(call.chain)
        \o (IF call.protocol \notin {"", "any"}
            THEN <<call.protocol, "protocol", call.protocol>> ELSE <<>>)
        \o (IF call.port.some THEN <<call.protocol, "dport", PortText(call.port.v)>> ELSE <<>>)
        \o (IF call.source.some THEN <<"ip", "saddr", call.source.v>> ELSE <<>>)
        \o <<"counter">>
        \o (IF ToLowercase(call.action) = AcceptText THEN <<"accept">> ELSE <<"drop">>)

\* add_rule("input", "tcp", 8080, "10.0.0.0/8", "drop")
ExampleCall ==
    /\ AddCalled
    /\ last.chain = "input" /\ last.protocol = "tcp" /\ last.port = Some(8080)
    /\ last.source = Some("10.0.0.0/8") /\ last.action = DropText

\* C6: add_firewall_rule with action "accept" or "drop" in any case succeeds and
\* appends one rule whose expressions are, in this order and nothing else: the protocol
\* match iff the protocol is neither empty nor "any", the dport match iff a port is
\* given, the saddr match iff a source is given, the counter, the action.
C6_RuleExpressionOrder ==
    (AddCalled /\ SupportedAction(last.action)) =>
        /\ last.result.ok
        /\ Len(nftables_handle) = Len(last.found) + 1
        /\ nftables_handle[Len(nftables_handle)] = ExpectedRuleLine(last)
        /\ ExampleCall =>
                nftables_handle[Len(nftables_handle)] =
                    <<"add", "rule", "inet", "filter", "input", "tcp", "protocol", "tcp",
                      "tcp", "dport", "8080", "ip", "saddr", "10.0.0.0/8", "counter", "drop">>

\* the call of the example has succeeded on an initialized batch
C6_Witness == ExampleCall /\ last.result.ok /\ Len(last.found) >= Len(BaseLines)

\* C7: add_firewall_rule with an action that is neither "accept" nor "drop" in any case
\* fails with the unsupported-action error and the stored batch is the batch the call
\* found, line for line.
C7_UnsupportedActionKeepsBatch ==
    (AddCalled /\ ~SupportedAction(last.action)) =>
        /\ ~last.result.ok
        /\ last.result.err = "Unsupported action"
        /\ nftables_handle = last.found

\* "reject" was refused with a port and a source given, on a batch built by
\* initialize_nftables
C7_Witness ==
    /\ AddCalled
    /\ last.action = <<"r", "e", "j", "e", "c", "t">>
    /\ last.port.some /\ last.source.some
    /\ ~last.result.ok
    /\ Len(nftables_handle) > Len(BaseLines)

IsAddRule(line) == Len(line) >= 5 /\ line[1] = "add" /\ line[2] = "rule"

\* C8: in the stored batch every "add rule" comes after the "add table" of its table
\* and the "add chain" of its chain, and the flush comes before every add.
C8_OrderConsistent ==
    \A i \in 1..Len(nftables_handle) :
        LET line == nftables_handle[i]
            Before(P(_)) == \E k \in 1..(i - 1) : P(nftables_handle[k])
            IsFlush(l) == l[1] = "flush"
            IsMyTable(l) == l = <<"add", "table", line[3], line[4]>>
            IsMyChain(l) ==
                Len(l) >= 5 /\ SubSeq(l, 1, 5) = <<"add", "chain", line[3], line[4], line[5]>>
        IN  /\ line[1] = "add" => Before(IsFlush)
            /\ IsAddRule(line) => Before(IsMyTable) /\ Before(IsMyChain)

\* C9: the batch initialize_nftables stores is the fresh one and nothing else: the
\* flush, the table, the three chains and the two baseline rules, then one zone rule
\* per configuration entry that has a zone; no rule that add_firewall_rule had put
\* into the batch it found is left.
C9_InitializeReplacesBatch ==
    InitDone =>
        /\ Len(nftables_handle) = Len(BaseLines) + Cardinality(ZonedEntries)
        /\ SubSeq(nftables_handle, 1, Len(BaseLines)) = BaseLines
        /\ \A k \in (Len(BaseLines) + 1)..Len(nftables_handle) :
                \E i \in ZonedEntries :
                    nftables_handle[k] =
                        TemplateLine(interfaces[i].nftables_zone.v, interfaces[i].name)
        /\ \A k \in AddedRules(last.found) : last.found[k] \notin Range(nftables_handle)

\* initialize_nftables has replaced a batch that held zone rules and an added rule
C9_Witness ==
    /\ InitDone
    /\ AddedRules(last.found) # {}
    /\ Len(last.found) > Len(BaseLines) + 1
    /\ ZonedEntries # {}

\* the rules of a batch that come from a zone template
IsZoneLine(line) ==
    /\ IsAddRule(line)
    /\ "counter" \notin Range(line)
    /\ \E j \in 1..(Len(line) - 1) : line[j] = "iifname" /\ line[j + 1] # "lo"

ZoneLines(batch) == SelectSeq(batch, IsZoneLine)

\* the zone rules the stored configuration calls for, under every order of the zones
DerivedZoneLines ==
    LET labels == {interfaces[i].nftables_zone.v : i \in ZonedEntries}
        Of(z) == LET In(c) == c.nftables_zone = Some(z)
                     es == SelectSeq(interfaces, In)
                 IN  [j \in 1..Len(es) |-> TemplateLine(z, es[j].name)]
    IN  {Flatten([k \in 1..Len(order) |-> Of(order[k])]) : order \in Perms(labels)}

RuleMutated ==
    last.op \in {"add_firewall_rule", "delete_firewall_rule"} /\ last.result.ok

C14_RegenerationDeterministic ==
    [][ (InitDone /\ InitDone') => nftables_handle' = nftables_handle ]_vars

IsAddChain(line) == Len(line) >= 5 /\ line[1] = "add" /\ line[2] = "chain"

\* "add chain inet filter <name>" with the clause of a base chain on <hook>
BaseChainLine(name, policy) ==
    <<"add", "chain", "inet", "filter", name,
      "type filter hook " \o name \o " priority 0; policy " \o policy \o ";">>

\* C15: the batch initialize_nftables stores creates three chains and no other, in
\* table inet filter: input with policy drop, forward with policy drop, output with
\* policy accept; so it is for every configuration, the empty one included.
C15_ThreeBaseChains ==
    InitDone =>
        SelectSeq(nftables_handle, IsAddChain) =
            << BaseChainLine("input", "drop"), BaseChainLine("forward", "drop"),
               BaseChainLine("output", "accept") >>

\* initialize_nftables has run on the empty configuration and replaced a batch that
\* held zone rules
C15_Witness ==
    /\ InitDone
    /\ interfaces = <<>>
    /\ ZoneLines(last.found) # <<>>

LoadCalled == last.op = "load_config"

\* C16: after load_config(L) the store is L, entry for entry, whatever it held before,
\* and the stored batch is the batch the call found.
C16_LoadConfigReplacesStore ==
    LoadCalled =>
        /\ last.result.ok
        /\ interfaces = last.list
        /\ nftables_handle = last.found

\* load_config was given a list without eth2 and eth1 while the batch still holds the
\* zone rules built from a store that declared eth1 and eth2
C16_Witness ==
    /\ LoadCalled
    /\ interfaces # <<>>
    /\ \A i \in 1..Len(interfaces) : interfaces[i].name \notin {"eth1", "eth2"}
    /\ \E k \in 1..Len(nftables_handle) : MatchesIif(nftables_handle[k], "eth2")
    /\ \E k \in 1..Len(nftables_handle) : MatchesIif(nftables_handle[k], "eth1")

(***************************************************************************)
(* Properties of the zone assignment (SpecZone)                            *)
(***************************************************************************)
\* the names the stored configuration declares
DeclaredNames == {interfaces[i].name : i \in 1..Len(interfaces)}

\* the commands of a batch that match on inbound interface x
RulesFor(batch, x) == {k \in 1..Len(batch) : MatchesIif(batch[k], x)}

\* C17: in the batch initialize_nftables stores, no command matches on the inbound
\* interface name of an interface that the configuration declares with no zone label
\* (no entry of that name carries one): only the baseline rules and the chain
\* policies bear on it.
C17_UnzonedInterfaceNoRule ==
    InitDone =>
        \A x \in DeclaredNames :
            DeclaredZones(x) = {} => RulesFor(nftables_handle, x) = {}

\* a batch just built for a configuration that declares an interface without a zone
\* between two with one, in place of a batch that had a rule for that interface
C17_Witness ==
    /\ InitDone
    /\ \E x \in DeclaredNames :
        /\ DeclaredZones(x) = {}
        /\ RulesFor(last.found, x) # {}
    /\ \E x, y \in DeclaredNames : x # y /\ DeclaredZones(x) # {} /\ DeclaredZones(y) # {}

\* C18: in the batch initialize_nftables stores for a list load_config took, no
\* interface name stands under two zone labels and no interface has the rules of two
\* zone templates.
C18_OneZonePerInterface ==
    InitDone =>
        \A x \in DeclaredNames :
            /\ Cardinality(DeclaredZones(x)) <= 1
            /\ Cardinality({nftables_handle[k] : k \in RulesFor(nftables_handle, x)}) <= 1

\* the command is "add chain inet filter <name> ..."
CreatesChain(line, name) ==
    IsAddChain(line) /\ SubSeq(line, 3, 5) = <<"inet", "filter", name>>

\* the rule accepts what connection tracking knows as established or related
IsEstablishedRule(line) ==
    /\ IsAddRule(line)
    /\ \E j \in 1..(Len(line) - 1) : line[j] = "ct" /\ line[j + 1] = "state"
    /\ "established," \in Range(line) /\ "related" \in Range(line)
    /\ line[Len(line)] = "accept"

\* the rule accepts all that comes in on lo
IsLoopbackRule(line) == IsAddRule(line) /\ AcceptsAllFrom(line, "lo")

\* C25: the batch initialize_nftables stores begins with the flush of the table, the
\* add of the table, the chains input, forward, output, the established/related accept
\* rule and the loopback accept rule, in this order; all that follows is zone rules,
\* so both baseline rules are there and stand before every zone rule.
C25_StatementOrder ==
    InitDone =>
        /\ Len(nftables_handle) >= 7
        /\ nftables_handle[1] = <<"flush", "table", "inet", "filter">>
        /\ nftables_handle[2] = <<"add", "table", "inet", "filter">>
        /\ CreatesChain(nftables_handle[3], "input")
        /\ CreatesChain(nftables_handle[4], "forward")
        /\ CreatesChain(nftables_handle[5], "output")
        /\ IsEstablishedRule(nftables_handle[6])
        /\ IsLoopbackRule(nftables_handle[7])
        /\ \A k \in 1..Len(nftables_handle) : IsZoneLine(nftables_handle[k]) <=> k > 7

\* a batch just built with three zone rules of three zones
C25_Witness ==
    /\ InitDone
    /\ Len(ZoneLines(nftables_handle)) = 3
    /\ Cardinality(UNION {DeclaredZones(x) : x \in DeclaredNames}) = 3

(***************************************************************************)
(* Properties of the firewall path beside the rule tool (SpecTool)         *)
(***************************************************************************)
DeleteCalled == last.op = "delete_firewall_rule"

\* no rule of the live ruleset carries the handle
NoRuleCarries(handle) == \A i \in 1..Len(ruleset) : ruleset[i].handle # handle

\* C11: delete_firewall_rule with a handle that no rule of the live ruleset carries
\* (an empty ruleset, a handle never given out) fails, and the stored batch is the
\* batch the call found.
C11_DeleteUnknownHandleFails ==
    (DeleteCalled /\ NoRuleCarries(last.rule_handle)) =>
        /\ ~last.result.ok
        /\ nftables_handle = last.found

\* the run of the tool started and ended with success
Succeeded(run) == run.started /\ run.success

\* C12: a batch becomes the stored (applied) batch only by a successful run of the rule
\* tool: an initialize_nftables that returns Ok has run the tool with success, and one
\* whose run failed returns an error and leaves the batch it found.
C12_StoredBatchWasApplied ==
    InitDone =>
        /\ last.tool # <<>>
        /\ last.result.ok <=> \A i \in 1..Len(last.tool) : Succeeded(last.tool[i])
        /\ ~last.result.ok => nftables_handle = last.found

\* C24: every handler reads and writes the interface store and the stored batch only
\* while it holds the lock of that field, and holds no lock while a kernel request or
\* a run of the rule tool is under way.
C24_LockDiscipline ==
    /\ \A a \in Accesses(last.op) : a.field \in Locks /\ a.field \in a.held
    /\ HeldDuringExternal(last.op) = {}

\* the words of the rules of a ruleset, one line per rule
RuleTexts(rs) == [i \in 1..Len(rs) |-> rs[i].text]

RulesQueried == last.op = "get_nftables_rules"

BothAdded == \A t \in Callers : calls[t].pc = "returned" /\ calls[t].result.ok

\* a rule written by add_firewall_rule that lacks its action
PartialRule(line) ==
    /\ IsAddRule(line)
    /\ "counter" \in Range(line)
    /\ line[Len(line)] \notin {"accept", "drop"}

InterfaceOps == {"setup_interface", "get_interfaces"}
FirewallOps ==
    {"initialize_nftables", "add_firewall_rule", "delete_firewall_rule",
     "get_nftables_rules"}

\* C26: a step of setup_interface or get_interfaces, whether the call succeeds or
\* fails, leaves the stored batch as it was; a step of initialize_nftables,
\* add_firewall_rule, delete_firewall_rule or get_nftables_rules leaves every link and
\* every address of the kernel as it was.
C26_PathsIndependent ==
    [][ /\ last'.op \in InterfaceOps => nftables_handle' = nftables_handle
        /\ last'.op \in FirewallOps => links' = links /\ kaddrs' = kaddrs ]_vars

\* setup_interface has replaced the addresses of a link while the stored batch holds
\* zone rules and an added rule
C26_Witness ==
    /\ SetupDone
    /\ "addr_del" \in Range(last.requests)
    /\ ZoneLines(nftables_handle) # <<>>
    /\ AddedRules(nftables_handle) # {}

(***************************************************************************)
(* Properties of add_firewall_rule calls one after another (SpecAppend)    *)
(***************************************************************************)
\* C27: an add_firewall_rule call that succeeds, no other call running beside it,
\* leaves the stored batch it found with one "add rule" command appended: every
\* earlier command keeps its words and its place; so the rules of successive calls
\* stand in the batch in the order of the calls.
C27_AppendOnly ==
    [][ (last'.op = "add_firewall_rule" /\ last'.result.ok) =>
            /\ Len(nftables_handle') = Len(nftables_handle) + 1
            /\ SubSeq(nftables_handle', 1, Len(nftables_handle)) = nftables_handle
            /\ nftables_handle'[Len(nftables_handle')] = ExpectedRuleLine(last') ]_vars

\* three calls after initialize_nftables: the batch ends with three added rules, not
\* all the same, behind the commands of initialize_nftables
C27_Witness ==
    /\ Len(nftables_handle) = Len(BaseLines) + 2 + 3
    /\ SubSeq(nftables_handle, 1, Len(BaseLines)) = BaseLines
    /\ AddedRules(nftables_handle) = (Len(BaseLines) + 3)..(Len(BaseLines) + 5)
    /\ nftables_handle[Len(BaseLines) + 3] # nftables_handle[Len(BaseLines) + 4]
    /\ nftables_handle[Len(BaseLines) + 4] = nftables_handle[Len(BaseLines) + 5]

(***************************************************************************)
(* Properties of the script repository (SpecScripts)                       *)
(***************************************************************************)
\* C29: whatever create_script, update_script, approve_script, delete_script and
\* execute_script calls came before, a content goes to the interpreter only from a
\* script that is approved at that moment, and it is the content the script had when
\* it was last approved; a created script is unapproved; an update that changes the
\* content leaves the script unapproved; execute_script of a script that is missing or
\* unapproved fails, and a failed execute_script records no result and runs nothing.
C29_ApprovalGate ==
    [][ /\ handed' # handed =>
              /\ last'.op = "execute_script"
              /\ last'.id \in DOMAIN scripts \cap DOMAIN approved_content
              /\ scripts[last'.id].is_approved
              /\ handed' = Append(handed, approved_content[last'.id])
        /\ \A id \in DOMAIN scripts' \ DOMAIN scripts : ~scripts'[id].is_approved
        /\ \A id \in DOMAIN scripts' \cap DOMAIN scripts :
              scripts'[id].content # scripts[id].content => ~scripts'[id].is_approved
        /\ last'.op = "execute_script" =>
              /\ (last'.id \notin DOMAIN scripts \/ ~scripts[last'.id].is_approved)
                    => ~last'.result.ok
              /\ ~last'.result.ok =>
                    execution_results' = execution_results /\ handed' = handed ]_vars

\* one script ran twice: it ran, was given another content, was approved again and ran again; and
\* the latest call was an execute_script refused for want of approval
C29_Witness ==
    /\ Len(handed) = 2
    /\ execution_results[1].script_id = execution_results[2].script_id
    /\ handed[1] # handed[2]
    /\ last.op = "execute_script"
    /\ last.result = Err("Cannot execute unapproved script")

(***************************************************************************)
(* Properties of the printer registry (SpecPrinters)                       *)
(***************************************************************************)
PrinterOps == {"add_printer", "update_printer", "delete_printer"}

\* C30: whatever add_printer, update_printer and delete_printer calls came before, no
\* two entries of the registry have the same ip_address, and a call that was refused
\* left the registry as it found it.
C30_UniqueIpAddresses ==
    /\ \A k1, k2 \in DOMAIN printers :
          printers[k1].ip_address = printers[k2].ip_address => k1 = k2
    /\ (last.op \in PrinterOps /\ ~last.result.ok) => printers = last.found

====
